---- MODULE Spec2Model ----
(***************************************************************************)
(* Neptulon: the framed connection (src/conn.go) and the server accept     *)
(* loop (src/unnamed/part_000).                                            *)
(*                                                                         *)
(* SpecConn : one direction of a framed stream.  Writer tasks call         *)
(*            Conn.Write on one side, a reader task calls Conn.Read on the  *)
(*            other side; the transport delivers the bytes in chunks.      *)
(* Spec     : the server: Start, Close, SendRequest and one handler task   *)
(*            (wsConnHandler) per accepted connection.                     *)
(* SpecTwo  : the server with two connecting clients.                      *)
(* SpecFair : the server under fair scheduling of its tasks.               *)
(* SpecMw   : the middleware chain of the admitted connections             *)
(*            (src/jsonrpc/auth.go, src/middleware/jwt/jwt_auth.go,        *)
(*            src/unnamed/part_003).                                       *)
(* SpecHeader : makeHeaderBytes and readHeaderBytes (src/conn.go).         *)
(***************************************************************************)
EXTENDS Integers, Sequences, FiniteSets, TLC

(***************************************************************************)
(* Bounds of the model.                                                    *)
(***************************************************************************)
MaxLen == 2
MaxFrames == 2
MaxReq == 1
MaxRecv == 2
MaxConnCloses == 2
MaxServerCloses == 2

(* Program constants of NewConn.  The default maxMsgSize of the source is   *)
(* 4294967295; the model checker's integers end at 2147483647, which stands *)
(* for it: no length of the model comes near either.                       *)
DefaultHeaderSize == 4
DefaultMaxMsgSize == 2147483647
Uint32Bytes == 4

Writers == {"w1", "w2"}
HeaderSizeArgs == {0, 4}
MaxMsgSizeArgs == {0, 1}
Conns == {"c1", "c2"}
ReqIds == 1..MaxReq
MwIds == 1..MaxRecv

VARIABLES
  (* ---- framed connection (src/conn.go) ---- *)
  headerSize,   \* Conn.headerSize, the same on both sides
  maxMsgSize,   \* Conn.maxMsgSize of the reading side
  wire,         \* bytes written by one side and not yet read by the other
  wlog,         \* history: for every byte put on the wire, the frame it belongs to
  written,      \* history: the messages handed to Conn.Write, in header order
  wpc,          \* writer task -> "idle" | "body"
  wmsg,         \* writer task -> message of the Write call in progress
  whdr,         \* writer task -> [n, frame] of the header write of the call
  wret,         \* writer task -> result of its last Write call that returned
  wfault,       \* history: "none" | "short" | "error": what the transport did to writes
  rpc,          \* reader task: "idle" | "body"
  rn,           \* reader: n decoded from the header
  rmsg,         \* reader: body bytes read so far
  reads,        \* history: results of the Read calls that returned
  rfault,       \* history: the transport reported a read error
  (* ---- server (src/unnamed/part_000) ---- *)
  peers,        \* the clients that connect to the server in this run
  running,      \* Server.running
  listener,     \* Server.listener: "nil" | "open" | "closed"
  startPc,      \* the task in Start(): "idle" | "listen" | "serve" | "returned"
  startRet,     \* what Start() returned: "none" | "nil" | "error"
  closePc,      \* the task in Close(): "idle" | "listener" | "range" | "wait"
  closeCalls,   \* number of Close() calls begun
  closeRet,     \* what the last Close() returned: "none" | "nil" | "error"
  wg,           \* Server.wg, the wait group counter
  conns,        \* Server.conns, the registry: the set of registered conn IDs
  hpc,          \* connection -> next statement of its handler task
  est,          \* connection -> engine state Fresh | Running | Closing | Closed
  tclosed,      \* connection -> its transport is closed
  nclose,       \* connection -> number of Conn.Close() calls made on it
  closeErr,     \* connection -> a Conn.Close() call returned an error
  hlog,         \* history: connection -> the steps its handler task performed
  recvd,        \* connection -> number of messages its read loop dispatched
  pending,      \* connection -> ids in its pending-response table
  cbLog,        \* history: connection -> id -> the invocations of its callback
  nextId,       \* connection -> number of SendRequest calls made on it
  reqOk,        \* history: connection -> ids whose SendRequest returned no error
  srPc,         \* the task in Server.SendRequest: "idle" | "lookup"
  srConn,       \* Server.SendRequest: its connID argument
  srLast,       \* history: the last Server.SendRequest call that returned
  (* ---- middleware chain of a connection (src/jsonrpc/auth.go,          ---- *)
  (* ---- src/middleware/jwt/jwt_auth.go, src/unnamed/part_003)           ---- *)
  chain,        \* Server.middleware: the handlers, in registration order
  authenticated,\* the variable `authenticated` captured by the HMAC closure
  session,      \* connection -> Conn.Session holds "userid"
  cert,         \* connection -> the peer presented a certificate
  mpc,          \* connection -> read task: "idle" | "run" | "unwind"
  mreq,         \* connection -> the request being dispatched (id 0: none yet)
  mwIndex,      \* connection -> ctx.mwIndex, the handler that runs next
  ctx,          \* connection -> the request context: Done, Res, Err
  post,         \* connection -> handlers whose call of Next has not returned
  ran,          \* history: connection -> the handlers that ran for the request
  cutAt,        \* history: connection -> index of the handler that set Done
                \*          and did not call Next (0: none)
  nextLog,      \* history: connection -> what was true when a handler called Next
  sout,         \* connection -> the frames written to the peer, in order
  cgot,         \* connection -> number of those frames the peer has read
  ceof,         \* connection -> the peer has observed the close
  ccb,          \* history: connection -> id -> invocations of the peer's callback
  authLog,      \* history: connection -> per message the certificate handlers
                \*          saw, its kind and whether they closed the connection
  (* ---- length prefix (src/conn.go, makeHeaderBytes / readHeaderBytes) ---- *)
  hsize,        \* the header width handed to makeHeaderBytes
  hval,         \* the length handed to makeHeaderBytes
  hbuf,         \* the bytes makeHeaderBytes returned
  hout,         \* the value readHeaderBytes returned
  hstage        \* "start" | "made" | "read" | "panic"

connVars == <<headerSize, maxMsgSize, wire, wlog, written, wpc, wmsg, whdr,
              wret, wfault, rpc, rn, rmsg, reads, rfault>>

srvVars == <<peers, running, listener, startPc, startRet, closePc, closeCalls,
             closeRet, wg, conns, hpc, est, tclosed, nclose, closeErr, hlog,
             recvd, pending, cbLog, nextId, reqOk, srPc, srConn, srLast>>

mwVars == <<chain, authenticated, session, cert, mpc, mreq, mwIndex, ctx, post,
            ran, cutAt, nextLog, sout, cgot, ceof, ccb, authLog>>

hdrVars == <<hsize, hval, hbuf, hout, hstage>>

vars == <<connVars, srvVars, mwVars, hdrVars>>

(***************************************************************************)
(* Helpers.                                                                *)
(***************************************************************************)
Min(a, b) == IF a < b THEN a ELSE b

RECURSIVE Pow(_, _)
Pow(b, e) == IF e = 0 THEN 1 ELSE b * Pow(b, e - 1)


Take(s, k) == SubSeq(s, 1, k)
Drop(s, k) == SubSeq(s, k + 1, Len(s))

(***************************************************************************)
(* NewConn: the defaults of headerSize and maxMsgSize.                     *)
(***************************************************************************)
NewConnHeaderSize(arg) == IF arg = 0 THEN DefaultHeaderSize ELSE arg
NewConnMaxMsgSize(arg) == IF arg = 0 THEN DefaultMaxMsgSize ELSE arg

(***************************************************************************)
(* makeHeaderBytes / readHeaderBytes: binary.LittleEndian on the first     *)
(* four bytes of a buffer of `size` bytes, the rest stays zero.  uint32(h)  *)
(* is h for the lengths 0 <= h < 2^31 that the model checker can hold.     *)
(***************************************************************************)
makeHeaderBytes(h, size) ==
  [i \in 1..size |->
     IF i <= Uint32Bytes
       THEN (h \div Pow(256, i - 1)) % 256
       ELSE 0]

readHeaderBytes(h) ==
  h[1] + 256 * h[2] + 65536 * h[3] + 16777216 * h[4]

(***************************************************************************)
(* The transport under Conn (c.conn).  Write(p) reports how many bytes it  *)
(* took and an error; Conn.Write tests the two separately, so both are     *)
(* outcomes here.  Read(p) returns between 1 and len(p) of the bytes that  *)
(* have arrived, or an error (deadline, peer closed).                      *)
(***************************************************************************)
ShortCounts(len) == {k \in {0, len - 1} : 0 <= k /\ k < len}

TransportWrite(len) ==
  {[n |-> len, err |-> FALSE]}
    \cup {[n |-> k, err |-> e] : k \in ShortCounts(len), e \in BOOLEAN}

TransportRead(len) == 1..Min(len, Len(wire))

FaultOf(o, len) ==
  IF o.err THEN "error"
  ELSE IF o.n # len THEN (IF wfault = "none" THEN "short" ELSE wfault)
  ELSE wfault

FramesStarted == Len(written)

(* What a Write call did: the message, the header and body bytes the       *)
(* transport took, and whether the call returned an error.                 *)
WriteResult(msg, hn, bn, err) ==
  [called |-> TRUE, msg |-> msg, hn |-> hn, bn |-> bn, err |-> err]

NoWriteResult ==
  [called |-> FALSE, msg |-> <<>>, hn |-> 0, bn |-> 0, err |-> FALSE]

(* Each writer task fills its messages with its own byte. *)
ByteOf(t) == IF t = "w1" THEN 1 ELSE 2
MessagesOf(t) == {[i \in 1..k |-> ByteOf(t)] : k \in 0..MaxLen}

(***************************************************************************)
(* Conn.Write, first half: l, h, the header write and its error return.    *)
(* The model follows the stream up to its first write fault: calls in      *)
(* progress finish, no new call starts after it.                           *)
(***************************************************************************)
WriteHeader(t, msg, o) ==
  /\ wpc[t] = "idle"
  /\ wfault = "none"
  /\ FramesStarted < MaxFrames
  /\ LET l == Len(msg)
         h == makeHeaderBytes(l, headerSize)
         f == FramesStarted + 1
     IN /\ wire' = wire \o Take(h, o.n)
        /\ wlog' = wlog \o [i \in 1..o.n |-> f]
        /\ written' = Append(written, msg)
        /\ wfault' = FaultOf(o, headerSize)
        /\ IF o.err
             THEN /\ wret' = [wret EXCEPT ![t] =
                               WriteResult(msg, o.n, 0, TRUE)]
                  /\ UNCHANGED <<wpc, wmsg, whdr>>
             ELSE /\ wpc' = [wpc EXCEPT ![t] = "body"]
                  /\ wmsg' = [wmsg EXCEPT ![t] = msg]
                  /\ whdr' = [whdr EXCEPT ![t] = [n |-> o.n, frame |-> f]]
                  /\ UNCHANGED wret
  /\ UNCHANGED <<headerSize, maxMsgSize, rpc, rn, rmsg, reads, rfault>>
  /\ UNCHANGED <<srvVars, mwVars, hdrVars>>

(***************************************************************************)
(* Conn.Write, second half: the body write and the return value.  The      *)
(* errors built for n != c.headerSize and n != l are local and dropped:    *)
(* the function returns nil unless the transport returned an error.        *)
(***************************************************************************)
WriteReturn(transportErr, shortHeader, shortBody) == transportErr

WriteBody(t, o) ==
  /\ wpc[t] = "body"
  /\ wfault # "error"
  /\ LET msg == wmsg[t]
         l == Len(msg)
     IN /\ wire' = wire \o Take(msg, o.n)
        /\ wlog' = wlog \o [i \in 1..o.n |-> whdr[t].frame]
        /\ wfault' = FaultOf(o, l)
        /\ wret' = [wret EXCEPT ![t] =
                      WriteResult(msg, whdr[t].n, o.n,
                                  WriteReturn(o.err, whdr[t].n # headerSize,
                                              o.n # l))]
  /\ wpc' = [wpc EXCEPT ![t] = "idle"]
  /\ wmsg' = [wmsg EXCEPT ![t] = <<>>]
  /\ whdr' = [whdr EXCEPT ![t] = [n |-> 0, frame |-> 0]]
  /\ UNCHANGED <<headerSize, maxMsgSize, written, rpc, rn, rmsg, reads,
                 rfault>>
  /\ UNCHANGED <<srvVars, mwVars, hdrVars>>

ConnWrite ==
  \E t \in Writers :
    \/ \E msg \in MessagesOf(t) :
         \E o \in TransportWrite(headerSize) : WriteHeader(t, msg, o)
    \/ \E o \in TransportWrite(Len(wmsg[t])) : WriteBody(t, o)

(***************************************************************************)
(* Conn.Read, first half: one transport read into the header buffer, the   *)
(* n != c.headerSize test, readHeaderBytes, and the allocation of msg.     *)
(* maxMsgSize is not consulted.  With n = 0 the body loop does not run     *)
(* and the call returns here.                                              *)
(***************************************************************************)
ReadResult(n, msg, err) == [n |-> n, msg |-> msg, err |-> err]

(* The caller of Read stops reading at the first error Read returns. *)
ReadFailed == \E i \in 1..Len(reads) : reads[i].err

HeaderComplete(k) == k = headerSize

ReadHeader(k) ==
  /\ rpc = "idle"
  /\ ~ReadFailed
  /\ LET h == Take(wire, k)
     IN /\ wire' = Drop(wire, k)
        /\ IF ~HeaderComplete(k)
             THEN /\ reads' = Append(reads, ReadResult(-1, <<>>, TRUE))
                  /\ UNCHANGED <<rpc, rn, rmsg>>
             ELSE LET n == readHeaderBytes(h)
                  IN IF n = 0
                       THEN /\ reads' = Append(reads, ReadResult(0, <<>>, FALSE))
                            /\ UNCHANGED <<rpc, rn, rmsg>>
                       ELSE /\ rpc' = "body"
                            /\ rn' = n
                            /\ rmsg' = <<>>
                            /\ UNCHANGED reads
  /\ UNCHANGED <<headerSize, maxMsgSize, wlog, written, wpc, wmsg, whdr, wret,
                 wfault, rfault>>
  /\ UNCHANGED <<srvVars, mwVars, hdrVars>>

(***************************************************************************)
(* Conn.Read, the body loop: one iteration of `for total < n`, and the     *)
(* return once total = n.                                                  *)
(***************************************************************************)
ReadBody(k) ==
  /\ rpc = "body"
  /\ ~ReadFailed
  /\ LET got == rmsg \o Take(wire, k)
     IN /\ wire' = Drop(wire, k)
        /\ IF Len(got) < rn
             THEN /\ rmsg' = got
                  /\ UNCHANGED <<rpc, rn, reads>>
             ELSE /\ reads' = Append(reads, ReadResult(rn, got, FALSE))
                  /\ rpc' = "idle"
                  /\ rn' = 0
                  /\ rmsg' = <<>>
  /\ UNCHANGED <<headerSize, maxMsgSize, wlog, written, wpc, wmsg, whdr, wret,
                 wfault, rfault>>
  /\ UNCHANGED <<srvVars, mwVars, hdrVars>>

(***************************************************************************)
(* Conn.Read when the transport read fails (deadline, peer closed): in the *)
(* header the error is returned as is; in the loop it breaks out and       *)
(* total != n sets the returned error.  The bytes read so far are returned *)
(* with it.                                                                *)
(***************************************************************************)
ReadError ==
  /\ ~ReadFailed
  /\ rfault' = TRUE
  /\ reads' = Append(reads,
                IF rpc = "idle" THEN ReadResult(-1, <<>>, TRUE)
                                ELSE ReadResult(rn, rmsg, TRUE))
  /\ rpc' = "idle"
  /\ rn' = 0
  /\ rmsg' = <<>>
  /\ UNCHANGED <<headerSize, maxMsgSize, wire, wlog, written, wpc, wmsg, whdr,
                 wret, wfault>>
  /\ UNCHANGED <<srvVars, mwVars, hdrVars>>

ConnRead ==
  \/ \E k \in TransportRead(headerSize) : ReadHeader(k)
  \/ \E k \in TransportRead(rn - Len(rmsg)) : ReadBody(k)
  \/ ReadError

(***************************************************************************)
(* The middleware chain and the length prefix at rest: no middleware is    *)
(* registered, no request was dispatched, no header was made.              *)
(***************************************************************************)
NoRequest == [id |-> 0, tok |-> "none", body |-> "none"]

(* A fresh request context: Done = false, Res and Err unset. *)
NewCtx == [done |-> FALSE, res |-> "unset", err |-> FALSE]

MwIdle ==
  /\ chain = <<>>
  /\ authenticated = FALSE
  /\ session = [c \in Conns |-> FALSE]
  /\ cert = [c \in Conns |-> FALSE]
  /\ mpc = [c \in Conns |-> "idle"]
  /\ mreq = [c \in Conns |-> NoRequest]
  /\ mwIndex = [c \in Conns |-> 0]
  /\ ctx = [c \in Conns |-> NewCtx]
  /\ post = [c \in Conns |-> <<>>]
  /\ ran = [c \in Conns |-> <<>>]
  /\ cutAt = [c \in Conns |-> 0]
  /\ nextLog = [c \in Conns |-> <<>>]
  /\ sout = [c \in Conns |-> <<>>]
  /\ cgot = [c \in Conns |-> 0]
  /\ ceof = [c \in Conns |-> FALSE]
  /\ ccb = [c \in Conns |-> [i \in MwIds |-> <<>>]]
  /\ authLog = [c \in Conns |-> <<>>]

HdrIdle ==
  /\ hsize = DefaultHeaderSize
  /\ hval = 0
  /\ hbuf = <<>>
  /\ hout = 0
  /\ hstage = "start"

(* No Server.SendRequest call has returned yet. *)
NoSend == [ret |-> "none", running |-> FALSE]

(* NewServer, and every connection before it is accepted. *)
NewServer ==
  /\ running = FALSE
  /\ listener = "nil"
  /\ startPc = "idle"
  /\ startRet = "none"
  /\ closePc = "idle"
  /\ closeCalls = 0
  /\ closeRet = "none"
  /\ wg = 0
  /\ conns = {}
  /\ hpc = [c \in Conns |-> "none"]
  /\ est = [c \in Conns |-> "Fresh"]
  /\ tclosed = [c \in Conns |-> FALSE]
  /\ nclose = [c \in Conns |-> 0]
  /\ closeErr = [c \in Conns |-> FALSE]
  /\ hlog = [c \in Conns |-> <<>>]
  /\ recvd = [c \in Conns |-> 0]
  /\ pending = [c \in Conns |-> {}]
  /\ cbLog = [c \in Conns |-> [i \in ReqIds |-> <<>>]]
  /\ nextId = [c \in Conns |-> 0]
  /\ reqOk = [c \in Conns |-> {}]
  /\ srPc = "idle"
  /\ srConn = "c1"
  /\ srLast = NoSend

InitServer ==
  /\ peers = {"c1"}
  /\ NewServer

InitConn ==
  /\ InitServer
  /\ MwIdle
  /\ HdrIdle
  /\ headerSize \in {NewConnHeaderSize(a) : a \in HeaderSizeArgs}
  /\ maxMsgSize \in {NewConnMaxMsgSize(a) : a \in MaxMsgSizeArgs}
  /\ wire = <<>>
  /\ wlog = <<>>
  /\ written = <<>>
  /\ wpc = [t \in Writers |-> "idle"]
  /\ wmsg = [t \in Writers |-> <<>>]
  /\ whdr = [t \in Writers |-> [n |-> 0, frame |-> 0]]
  /\ wret = [t \in Writers |-> NoWriteResult]
  /\ wfault = "none"
  /\ rpc = "idle"
  /\ rn = 0
  /\ rmsg = <<>>
  /\ reads = <<>>
  /\ rfault = FALSE

NextConn == ConnWrite \/ ConnRead

SpecConn == InitConn /\ [][NextConn]_vars

(***************************************************************************)
(* Properties of the framed connection (checked under SpecConn).           *)
(***************************************************************************)

(* The bytes of every frame lie together on the wire. *)
Contiguous(log) ==
  \A i, j, k \in 1..Len(log) :
    (i < j /\ j < k /\ log[i] = log[k]) => log[j] = log[i]

(* The frames were written back-to-back and in full, and the transport     *)
(* reported no error on either side.                                       *)
CleanStream == wfault = "none" /\ ~rfault /\ Contiguous(wlog)

(* C1 (framing): for messages written back-to-back with Conn.Write, the    *)
(* successive Conn.Read calls of the other side return exactly those       *)
(* payloads, unchanged and in order, without error, however the transport  *)
(* splits the byte stream into chunks.                                     *)
C1_Framing ==
  CleanStream =>
    \A i \in 1..Len(reads) : ~reads[i].err /\ reads[i].msg = written[i]

(* C2 (one frame at a time): the header and body bytes of one frame are    *)
(* never interleaved on the wire with the bytes of another frame, also     *)
(* when two tasks call Conn.Write concurrently.                            *)
C2_NoInterleavedFrames == wfault = "none" => Contiguous(wlog)

(* C8 (oversized frames): a Read whose decoded length n exceeds the        *)
(* configured maximum message size returns an error, not a payload.        *)
C8_FrameTooLarge ==
  \A i \in 1..Len(reads) : reads[i].n > maxMsgSize => reads[i].err

(* C9 (short write): a Write call during which the transport took fewer    *)
(* bytes than the full header or the full body returns a non-nil error;    *)
(* nil is returned only when both were written in full.                    *)
C9_ShortWriteIsError ==
  \A t \in Writers :
    (wret[t].called /\ ~wret[t].err) =>
      (wret[t].hn = headerSize /\ wret[t].bn = Len(wret[t].msg))

(***************************************************************************)
(*                              THE SERVER                                 *)
(***************************************************************************)

Log(c, step) == [hlog EXCEPT ![c] = Append(@, step)]

(***************************************************************************)
(* Server.Start: net.Listen, s.listener = l, s.running = true, http.Serve, *)
(* and the result once Serve returns (the listener was closed).            *)
(***************************************************************************)
StartListen ==
  /\ startPc = "idle"
  /\ listener = "nil"
  /\ listener' = "open"
  /\ startPc' = "listen"
  /\ UNCHANGED <<connVars, mwVars, hdrVars>>
  /\ UNCHANGED <<peers, running, startRet, closePc, closeCalls, closeRet, wg, conns,
                 hpc, est, tclosed, nclose, closeErr, hlog, recvd, pending,
                 cbLog, nextId, reqOk, srPc, srConn, srLast>>

StartServe ==
  /\ startPc = "listen"
  /\ running' = TRUE
  /\ startPc' = "serve"
  /\ UNCHANGED <<connVars, mwVars, hdrVars>>
  /\ UNCHANGED <<peers, listener, startRet, closePc, closeCalls, closeRet, wg, conns,
                 hpc, est, tclosed, nclose, closeErr, hlog, recvd, pending,
                 cbLog, nextId, reqOk, srPc, srConn, srLast>>

StartResult(run) == IF ~run THEN "nil" ELSE "error"

StartReturn ==
  /\ startPc = "serve"
  /\ listener = "closed"
  /\ startRet' = StartResult(running)
  /\ startPc' = "returned"
  /\ UNCHANGED <<connVars, mwVars, hdrVars>>
  /\ UNCHANGED <<peers, running, listener, closePc, closeCalls, closeRet, wg, conns,
                 hpc, est, tclosed, nclose, closeErr, hlog, recvd, pending,
                 cbLog, nextId, reqOk, srPc, srConn, srLast>>

(***************************************************************************)
(* http.Serve accepts a connection and starts its task; the websocket      *)
(* handshake of that task runs the Handshake function: s.wg.Add(1).        *)
(***************************************************************************)
Accept(c) ==
  /\ startPc = "serve"
  /\ listener = "open"
  /\ c \in peers
  /\ hpc[c] = "none"
  /\ c = "c2" => hpc["c1"] # "none"
  /\ hpc' = [hpc EXCEPT ![c] = "handshake"]
  /\ UNCHANGED <<connVars, mwVars, hdrVars>>
  /\ UNCHANGED <<peers, running, listener, startPc, startRet, closePc, closeCalls,
                 closeRet, wg, conns, est, tclosed, nclose, closeErr, hlog,
                 recvd, pending, cbLog, nextId, reqOk, srPc, srConn, srLast>>

Handshake(c) ==
  /\ hpc[c] = "handshake"
  /\ wg' = wg + 1
  /\ hpc' = [hpc EXCEPT ![c] = "newConn"]
  /\ UNCHANGED <<connVars, mwVars, hdrVars>>
  /\ UNCHANGED <<peers, running, listener, startPc, startRet, closePc, closeCalls,
                 closeRet, conns, est, tclosed, nclose, closeErr, hlog, recvd,
                 pending, cbLog, nextId, reqOk, srPc, srConn, srLast>>

(***************************************************************************)
(* Server.wsConnHandler.  hpc[c] names the next statement of the task;     *)
(* StepAfter gives the statement that follows one that completed normally. *)
(***************************************************************************)
StepAfterDisconnFirst(pc) ==
  CASE pc = "newConn" -> "connHandler"
    [] pc = "inConnHandler" -> "set"
    [] pc = "set" -> "useConn"
    [] pc = "useConn" -> "engine"
    [] pc = "engine" -> "disconn"
    [] pc = "disconn" -> "delete"
    [] pc = "delete" -> "done"

StepAfter(pc) ==
  CASE pc = "newConn" -> "connHandler"
    [] pc = "inConnHandler" -> "set"
    [] pc = "set" -> "useConn"
    [] pc = "useConn" -> "engine"
    [] pc = "engine" -> "delete"
    [] pc = "delete" -> "disconn"
    [] pc = "disconn" -> "done"

(* c, err := NewConn(); on an error the function returns before the defer  *)
(* statement: nothing calls wg.Done for this connection.  When the handler *)
(* returns, the websocket server closes the transport.                     *)
NewConnStep(c, ok) ==
  /\ hpc[c] = "newConn"
  /\ IF ok
       THEN /\ hpc' = [hpc EXCEPT ![c] = StepAfter("newConn")]
            /\ UNCHANGED <<tclosed, hlog>>
       ELSE /\ hpc' = [hpc EXCEPT ![c] = "done"]
            /\ tclosed' = [tclosed EXCEPT ![c] = TRUE]
            /\ hlog' = Log(c, "NewConnFailed")
  /\ UNCHANGED <<connVars, mwVars, hdrVars>>
  /\ UNCHANGED <<peers, running, listener, startPc, startRet, closePc, closeCalls,
                 closeRet, wg, conns, est, nclose, closeErr, recvd, pending,
                 cbLog, nextId, reqOk, srPc, srConn, srLast>>

(* s.connHandler(c) is called ... *)
ConnHandlerCall(c) ==
  /\ hpc[c] = "connHandler"
  /\ hpc' = [hpc EXCEPT ![c] = "inConnHandler"]
  /\ hlog' = Log(c, "ConnHandler")
  /\ UNCHANGED <<connVars, mwVars, hdrVars>>
  /\ UNCHANGED <<peers, running, listener, startPc, startRet, closePc, closeCalls,
                 closeRet, wg, conns, est, tclosed, nclose, closeErr, recvd,
                 pending, cbLog, nextId, reqOk, srPc, srConn, srLast>>

(* ... and returns.  On an error the handler logs and returns: the         *)
(* deferred recoverAndLog runs (wg.Done) and the websocket server closes   *)
(* the transport.                                                          *)
AfterConnHandlerIgnoresError(err) == StepAfter("inConnHandler")
AfterConnHandler(err) == IF err THEN "done" ELSE StepAfter("inConnHandler")

ConnHandlerReturn(c, err) ==
  /\ hpc[c] = "inConnHandler"
  /\ hpc' = [hpc EXCEPT ![c] = AfterConnHandler(err)]
  /\ IF err
       THEN /\ hlog' = Log(c, "Refused")
            /\ IF hpc'[c] = "done"
                 THEN /\ wg' = wg - 1
                      /\ tclosed' = [tclosed EXCEPT ![c] = TRUE]
                 ELSE UNCHANGED <<wg, tclosed>>
       ELSE UNCHANGED <<hlog, wg, tclosed>>
  /\ UNCHANGED <<connVars, mwVars, hdrVars>>
  /\ UNCHANGED <<peers, running, listener, startPc, startRet, closePc, closeCalls,
                 closeRet, conns, est, nclose, closeErr, recvd, pending,
                 cbLog, nextId, reqOk, srPc, srConn, srLast>>

(* s.conns.Set(c.ID, c) *)
RegistrySet(c) ==
  /\ hpc[c] = "set"
  /\ conns' = conns \cup {c}
  /\ hpc' = [hpc EXCEPT ![c] = StepAfter("set")]
  /\ hlog' = Log(c, "Set")
  /\ UNCHANGED <<connVars, mwVars, hdrVars>>
  /\ UNCHANGED <<peers, running, listener, startPc, startRet, closePc, closeCalls,
                 closeRet, wg, est, tclosed, nclose, closeErr, recvd, pending,
                 cbLog, nextId, reqOk, srPc, srConn, srLast>>

(* s.conns.Delete(c.ID) *)
RegistryDelete(c) ==
  /\ hpc[c] = "delete"
  /\ conns' = conns \ {c}
  /\ hpc' = [hpc EXCEPT ![c] = StepAfter("delete")]
  /\ hlog' = Log(c, "Delete")
  /\ UNCHANGED <<connVars, mwVars, hdrVars>>
  /\ UNCHANGED <<peers, running, listener, startPc, startRet, closePc, closeCalls,
                 closeRet, wg, est, tclosed, nclose, closeErr, recvd, pending,
                 cbLog, nextId, reqOk, srPc, srConn, srLast>>

(* s.disconnHandler(c), then the return: the deferred recoverAndLog calls  *)
(* wg.Done and the websocket server closes the transport.                  *)
DisconnHandlerStep(c) ==
  /\ hpc[c] = "disconn"
  /\ hpc' = [hpc EXCEPT ![c] = StepAfter("disconn")]
  /\ hlog' = Log(c, "DisconnHandler")
  /\ wg' = wg - 1
  /\ tclosed' = [tclosed EXCEPT ![c] = TRUE]
  /\ UNCHANGED <<connVars, mwVars, hdrVars>>
  /\ UNCHANGED <<peers, running, listener, startPc, startRet, closePc, closeCalls,
                 closeRet, conns, est, nclose, closeErr, recvd, pending,
                 cbLog, nextId, reqOk, srPc, srConn, srLast>>

(***************************************************************************)
(* The connection engine and its pending-response table.  Their code is    *)
(* not among the sources; they follow sections 4.D and 4.F of the          *)
(* specification.                                                          *)
(***************************************************************************)
Register(tbl, id) == tbl \cup {id}

(* Resolve(id): whether a callback is invoked, and the table afterwards. *)
ResolveHit(tbl, id) == id \in tbl
ResolveTableKeepsEntry(tbl, id) == tbl
ResolveTable(tbl, id) == tbl \ {id}

(* CancelAll(Closed): every registered callback is invoked with Closed and *)
(* the table is drained.                                                   *)
CancelAll(c) ==
  [i \in ReqIds |->
     IF i \in pending[c] THEN Append(cbLog[c][i], "closed") ELSE cbLog[c][i]]

(* Running -> Closing on Close(), on a read error or on a write error. *)
OnClose(st) == IF st = "Running" THEN "Closing" ELSE st

(* Closing -> Closed once the read task has exited. *)
OnReadTaskExit(st) == "Closed"

(* c.useConn(ws): Fresh -> Running, the read loop starts. *)
UseConn(c) ==
  /\ hpc[c] = "useConn"
  /\ est' = [est EXCEPT ![c] = IF @ = "Fresh" THEN "Running" ELSE @]
  /\ hpc' = [hpc EXCEPT ![c] = StepAfter("useConn")]
  /\ hlog' = Log(c, "useConn")
  /\ UNCHANGED <<connVars, mwVars, hdrVars>>
  /\ UNCHANGED <<peers, running, listener, startPc, startRet, closePc, closeCalls,
                 closeRet, wg, conns, tclosed, nclose, closeErr, recvd,
                 pending, cbLog, nextId, reqOk, srPc, srConn, srLast>>

(* The read loop reads one Response and resolves it: the first matching    *)
(* Response invokes the callback, any other is dropped.                    *)
EngineResponse(c, id) ==
  /\ hpc[c] = "engine"
  /\ est[c] = "Running"
  /\ ~tclosed[c]
  /\ recvd[c] < MaxRecv
  /\ recvd' = [recvd EXCEPT ![c] = @ + 1]
  /\ IF ResolveHit(pending[c], id)
       THEN cbLog' = [cbLog EXCEPT ![c][id] = Append(@, "response")]
       ELSE UNCHANGED cbLog
  /\ pending' = [pending EXCEPT ![c] = ResolveTable(@, id)]
  /\ UNCHANGED <<connVars, mwVars, hdrVars>>
  /\ UNCHANGED <<peers, running, listener, startPc, startRet, closePc, closeCalls,
                 closeRet, wg, conns, hpc, est, tclosed, nclose, closeErr,
                 hlog, nextId, reqOk, srPc, srConn, srLast>>

(* The read loop reads one Request, runs the middleware chain on the read  *)
(* task and writes the response.                                           *)
EngineRequest(c) ==
  /\ hpc[c] = "engine"
  /\ est[c] = "Running"
  /\ ~tclosed[c]
  /\ recvd[c] < MaxRecv
  /\ recvd' = [recvd EXCEPT ![c] = @ + 1]
  /\ UNCHANGED <<connVars, mwVars, hdrVars>>
  /\ UNCHANGED <<peers, running, listener, startPc, startRet, closePc, closeCalls,
                 closeRet, wg, conns, hpc, est, tclosed, nclose, closeErr,
                 hlog, pending, cbLog, nextId, reqOk, srPc, srConn, srLast>>

(* The read fails (the transport was closed, the peer went away, the       *)
(* deadline passed): the read task exits, CancelAll(Closed) runs, the      *)
(* transport is closed and useConn returns.                                *)
EngineExit(c) ==
  /\ hpc[c] = "engine"
  /\ est' = [est EXCEPT ![c] = OnReadTaskExit(@)]
  /\ tclosed' = [tclosed EXCEPT ![c] = TRUE]
  /\ cbLog' = [cbLog EXCEPT ![c] = CancelAll(c)]
  /\ pending' = [pending EXCEPT ![c] = {}]
  /\ hpc' = [hpc EXCEPT ![c] = StepAfter("engine")]
  /\ UNCHANGED <<connVars, mwVars, hdrVars>>
  /\ UNCHANGED <<peers, running, listener, startPc, startRet, closePc, closeCalls,
                 closeRet, wg, conns, nclose, closeErr, hlog, recvd, nextId,
                 reqOk, srPc, srConn, srLast>>

(***************************************************************************)
(* A handler panics while the read task dispatches a message.  The panic   *)
(* unwinds useConn and wsConnHandler: the statements after c.useConn(ws)   *)
(* are not executed.  The deferred recoverAndLog(c, &s.wg) recovers, moves *)
(* the connection to Closing (then Closed: the read task is gone) and      *)
(* calls wg.Done; the websocket server closes the transport.               *)
(***************************************************************************)
AfterPanic == "done"

(* The connections whose task a panic in a handler of c ends: the deferred *)
(* recoverAndLog is installed by, and recovers in, the task of c alone.    *)
PanicScopeProcess(c) == Conns
PanicScope(c) == {c}

EnginePanic(c) ==
  /\ hpc[c] = "engine"
  /\ est[c] = "Running"
  /\ ~tclosed[c]
  /\ recvd[c] < MaxRecv
  /\ recvd' = [recvd EXCEPT ![c] = @ + 1]
  /\ hlog' = Log(c, "Panic")
  /\ hpc' = [d \in Conns |-> IF d \in PanicScope(c) THEN AfterPanic ELSE hpc[d]]
  /\ est' = [d \in Conns |->
               IF d \in PanicScope(c) THEN OnReadTaskExit(OnClose(est[d]))
                                      ELSE est[d]]
  /\ tclosed' = [d \in Conns |-> IF d \in PanicScope(c) THEN TRUE ELSE tclosed[d]]
  /\ cbLog' = [d \in Conns |->
                 IF d \in PanicScope(c) THEN CancelAll(d) ELSE cbLog[d]]
  /\ pending' = [d \in Conns |-> IF d \in PanicScope(c) THEN {} ELSE pending[d]]
  /\ wg' = wg - 1
  /\ UNCHANGED <<connVars, mwVars, hdrVars>>
  /\ UNCHANGED <<peers, running, listener, startPc, startRet, closePc, closeCalls,
                 closeRet, conns, nclose, closeErr, nextId, reqOk, srPc,
                 srConn, srLast>>

(***************************************************************************)
(* Conn.SendRequest(method, params, cb): generate the id, register         *)
(* (id, cb), write the frame; an error while writing un-registers and is   *)
(* fatal for the connection.  A connection that is not Running has no      *)
(* usable transport: the call returns an error and registers nothing.      *)
(* The caller adds what it leaves unchanged.                               *)
(***************************************************************************)
SendSucceeds(c, werr) == est[c] = "Running" /\ ~tclosed[c] /\ ~werr

ConnSendRequest(c, werr) ==
  /\ nextId[c] < MaxReq
  /\ nextId' = [nextId EXCEPT ![c] = @ + 1]
  /\ LET id == nextId[c] + 1
     IN IF SendSucceeds(c, werr)
          THEN /\ pending' = [pending EXCEPT ![c] = Register(@, id)]
               /\ reqOk' = [reqOk EXCEPT ![c] = @ \cup {id}]
               /\ UNCHANGED <<est, tclosed, cbLog>>
          ELSE IF est[c] = "Running"
            THEN /\ est' = [est EXCEPT ![c] = OnClose(@)]
                 /\ tclosed' = [tclosed EXCEPT ![c] = TRUE]
                 /\ cbLog' = [cbLog EXCEPT ![c] = CancelAll(c)]
                 /\ pending' = [pending EXCEPT ![c] = {}]
                 /\ UNCHANGED reqOk
            ELSE UNCHANGED <<pending, reqOk, est, tclosed, cbLog>>

(* A handler or the application calls c.SendRequest while the handler task *)
(* of the connection is in useConn.                                        *)
AppSendRequest(c, werr) ==
  /\ hpc[c] = "engine"
  /\ ConnSendRequest(c, werr)
  /\ UNCHANGED <<connVars, mwVars, hdrVars>>
  /\ UNCHANGED <<peers, running, listener, startPc, startRet, closePc, closeCalls,
                 closeRet, wg, conns, hpc, nclose, closeErr, hlog, recvd,
                 srPc, srConn, srLast>>

(***************************************************************************)
(* Conn.Close: return c.conn.Close().  The transport's Close reports an    *)
(* error when the transport is closed already (use of closed network       *)
(* connection); Conn.Close hands that result on.  CloseAll applies Close   *)
(* to a set of connections; the engine side of it (Closing, CancelAll)     *)
(* follows section 4.F and 5 of the specification.                         *)
(***************************************************************************)
ConnCloseReturnsError(alreadyClosed) == alreadyClosed

CloseAll(S) ==
  /\ tclosed' = [c \in Conns |-> IF c \in S THEN TRUE ELSE tclosed[c]]
  /\ nclose' = [c \in Conns |-> IF c \in S THEN nclose[c] + 1 ELSE nclose[c]]
  /\ closeErr' = [c \in Conns |->
                    IF c \in S /\ nclose[c] >= 1
                      THEN closeErr[c] \/ ConnCloseReturnsError(tclosed[c])
                      ELSE closeErr[c]]
  /\ est' = [c \in Conns |-> IF c \in S THEN OnClose(est[c]) ELSE est[c]]
  /\ cbLog' = [c \in Conns |-> IF c \in S THEN CancelAll(c) ELSE cbLog[c]]
  /\ pending' = [c \in Conns |-> IF c \in S THEN {} ELSE pending[c]]

(* A handler or the application calls c.Close() while the handler task of  *)
(* the connection is in useConn.                                           *)
AppClose(c) ==
  /\ hpc[c] = "engine"
  /\ nclose[c] < MaxConnCloses
  /\ CloseAll({c})
  /\ UNCHANGED <<connVars, mwVars, hdrVars>>
  /\ UNCHANGED <<peers, running, listener, startPc, startRet, closePc, closeCalls,
                 closeRet, wg, conns, hpc, hlog, recvd, nextId, reqOk, srPc,
                 srConn, srLast>>

(***************************************************************************)
(* Server.Close: s.running = false; s.listener.Close(); Range over the     *)
(* registry closing every connection; the early return when the listener   *)
(* reported an error; s.wg.Wait().  (Close before Start has no listener to *)
(* close and is left out.)                                                 *)
(***************************************************************************)
CloseStop ==
  /\ closePc = "idle"
  /\ listener # "nil"
  /\ closeCalls < MaxServerCloses
  /\ closeCalls' = closeCalls + 1
  /\ running' = FALSE
  /\ closeRet' = "none"
  /\ closePc' = "listener"
  /\ UNCHANGED <<connVars, mwVars, hdrVars>>
  /\ UNCHANGED <<peers, listener, startPc, startRet, wg, conns, hpc, est, tclosed,
                 nclose, closeErr, hlog, recvd, pending, cbLog, nextId, reqOk,
                 srPc, srConn, srLast>>

CloseListener ==
  /\ closePc = "listener"
  /\ closePc' = IF listener = "closed" THEN "rangeErr" ELSE "range"
  /\ listener' = "closed"
  /\ UNCHANGED <<connVars, mwVars, hdrVars>>
  /\ UNCHANGED <<peers, running, startPc, startRet, closeCalls, closeRet, wg, conns,
                 hpc, est, tclosed, nclose, closeErr, hlog, recvd, pending,
                 cbLog, nextId, reqOk, srPc, srConn, srLast>>

AfterRange(pc) == IF pc = "rangeErr" THEN "idle" ELSE "wait"

CloseRange ==
  /\ closePc \in {"range", "rangeErr"}
  /\ CloseAll(conns)
  /\ closePc' = AfterRange(closePc)
  /\ closeRet' = IF closePc' = "idle" THEN "error" ELSE closeRet
  /\ UNCHANGED <<connVars, mwVars, hdrVars>>
  /\ UNCHANGED <<peers, running, listener, startPc, startRet, closeCalls, wg, conns,
                 hpc, hlog, recvd, nextId, reqOk, srPc, srConn, srLast>>

WaitDone(n) == n = 0

CloseWait ==
  /\ closePc = "wait"
  /\ WaitDone(wg)
  /\ closePc' = "idle"
  /\ closeRet' = "nil"
  /\ UNCHANGED <<connVars, mwVars, hdrVars>>
  /\ UNCHANGED <<peers, running, listener, startPc, startRet, closeCalls, wg, conns,
                 hpc, est, tclosed, nclose, closeErr, hlog, recvd, pending,
                 cbLog, nextId, reqOk, srPc, srConn, srLast>>

(***************************************************************************)
(* Server.SendRequest(connID, ...): the !s.running test, then GetOk and    *)
(* conn.SendRequest, or the "does not exist" error.  srLast records, for   *)
(* the last call that returned, its result ("sent": the request was        *)
(* registered and written) and whether s.running held when it returned.    *)
(***************************************************************************)
SendRecord(sent, run) ==
  [ret |-> IF sent THEN "sent" ELSE "error", running |-> run]

ServerRunningCheck(run) == run

SrCheck(c) ==
  /\ srPc = "idle"
  /\ IF ServerRunningCheck(running)
       THEN /\ srPc' = "lookup"
            /\ srConn' = c
            /\ UNCHANGED srLast
       ELSE /\ srLast' = SendRecord(FALSE, running)
            /\ UNCHANGED <<srPc, srConn>>
  /\ UNCHANGED <<connVars, mwVars, hdrVars>>
  /\ UNCHANGED <<peers, running, listener, startPc, startRet, closePc, closeCalls,
                 closeRet, wg, conns, hpc, est, tclosed, nclose, closeErr,
                 hlog, recvd, pending, cbLog, nextId, reqOk>>

GetOk(reg, c) == c \in reg

SrSend(werr) ==
  /\ srPc = "lookup"
  /\ srPc' = "idle"
  /\ IF GetOk(conns, srConn)
       THEN /\ ConnSendRequest(srConn, werr)
            /\ srLast' = SendRecord(SendSucceeds(srConn, werr), running)
       ELSE /\ srLast' = SendRecord(FALSE, running)
            /\ UNCHANGED <<pending, reqOk, est, tclosed, cbLog, nextId>>
  /\ UNCHANGED <<connVars, mwVars, hdrVars>>
  /\ UNCHANGED <<peers, running, listener, startPc, startRet, closePc, closeCalls,
                 closeRet, wg, conns, hpc, nclose, closeErr, hlog, recvd,
                 srConn>>

(***************************************************************************)
(* The server specification.                                               *)
(***************************************************************************)
ConnIdle ==
  /\ headerSize = NewConnHeaderSize(0)
  /\ maxMsgSize = NewConnMaxMsgSize(0)
  /\ wire = <<>>
  /\ wlog = <<>>
  /\ written = <<>>
  /\ wpc = [t \in Writers |-> "idle"]
  /\ wmsg = [t \in Writers |-> <<>>]
  /\ whdr = [t \in Writers |-> [n |-> 0, frame |-> 0]]
  /\ wret = [t \in Writers |-> NoWriteResult]
  /\ wfault = "none"
  /\ rpc = "idle"
  /\ rn = 0
  /\ rmsg = <<>>
  /\ reads = <<>>
  /\ rfault = FALSE

Init == InitServer /\ ConnIdle /\ MwIdle /\ HdrIdle

ServerStart == StartListen \/ StartServe \/ StartReturn

ServerClose == CloseStop \/ CloseListener \/ CloseRange \/ CloseWait

ServerSendRequest ==
  \/ \E c \in Conns : SrCheck(c)
  \/ \E werr \in BOOLEAN : SrSend(werr)

WsConnHandler(c) ==
  \/ Accept(c)
  \/ Handshake(c)
  \/ \E ok \in BOOLEAN : NewConnStep(c, ok)
  \/ ConnHandlerCall(c)
  \/ \E err \in BOOLEAN : ConnHandlerReturn(c, err)
  \/ RegistrySet(c)
  \/ UseConn(c)
  \/ RegistryDelete(c)
  \/ DisconnHandlerStep(c)

Engine(c) ==
  \/ \E id \in ReqIds : EngineResponse(c, id)
  \/ EngineRequest(c)
  \/ EngineExit(c)
  \/ EnginePanic(c)

App(c) ==
  \/ \E werr \in BOOLEAN : AppSendRequest(c, werr)
  \/ AppClose(c)

Next ==
  \/ ServerStart
  \/ ServerClose
  \/ ServerSendRequest
  \/ \E c \in Conns : WsConnHandler(c)
  \/ \E c \in Conns : Engine(c)
  \/ \E c \in Conns : App(c)

Spec == Init /\ [][Next]_vars

(***************************************************************************)
(* SpecTwo: the server with two connecting clients.  Its traffic is the    *)
(* accept loop, the handler tasks, the read loops (messages, read errors,  *)
(* handler panics) and Close().                                            *)
(***************************************************************************)
InitTwo ==
  /\ peers = Conns
  /\ NewServer
  /\ ConnIdle
  /\ MwIdle
  /\ HdrIdle

NextTwo ==
  \/ ServerStart
  \/ ServerClose
  \/ \E c \in Conns : WsConnHandler(c)
  \/ \E c \in Conns : Engine(c)

SpecTwo == InitTwo /\ [][NextTwo]_vars

(***************************************************************************)
(* SpecFair: the server under fair scheduling.  A task that can take its   *)
(* next step eventually takes it: the task in Start() once it listens, the *)
(* task in Close() once it was called, the handler task of a connection    *)
(* once the connection was accepted (the application's ConnHandler and     *)
(* DisconnHandler return), and the read loop of a connection, whose read   *)
(* eventually fails: its transport was closed, or its peer went away or    *)
(* fell silent and the read deadline that Conn.Read sets before every read *)
(* passed (no peer is taken to keep talking for ever).  Nothing obliges    *)
(* the application to call Start() or Close(), or a client to connect.     *)
(***************************************************************************)
StartTask == StartServe \/ StartReturn

CloseTask == CloseListener \/ CloseRange \/ CloseWait

HandlerTask(c) ==
  \/ Handshake(c)
  \/ \E ok \in BOOLEAN : NewConnStep(c, ok)
  \/ ConnHandlerCall(c)
  \/ \E err \in BOOLEAN : ConnHandlerReturn(c, err)
  \/ RegistrySet(c)
  \/ UseConn(c)
  \/ RegistryDelete(c)
  \/ DisconnHandlerStep(c)

ReadFails(c) == EngineExit(c)

FairScheduling ==
  /\ WF_vars(StartTask)
  /\ WF_vars(CloseTask)
  /\ \A c \in Conns : WF_vars(HandlerTask(c))
  /\ \A c \in Conns : WF_vars(ReadFails(c))

SpecFair == Init /\ [][NextTwo]_vars /\ FairScheduling

(***************************************************************************)
(* Properties of the server (checked under Spec).                          *)
(***************************************************************************)
Has(log, step) == \E i \in 1..Len(log) : log[i] = step
Count(log, step) == Cardinality({i \in 1..Len(log) : log[i] = step})
IsPrefix(a, b) == Len(a) <= Len(b) /\ \A i \in 1..Len(a) : a[i] = b[i]

(* The steps of wsConnHandler that the handler task of c has performed. *)
IsStep(x) == x \in {"ConnHandler", "Set", "useConn", "Delete", "DisconnHandler"}
Steps(c) == SelectSeq(hlog[c], IsStep)

Invocations(c, id) == Len(cbLog[c][id])

C4_IdempotentClose ==
  \A c \in Conns :
    /\ ~closeErr[c]
    /\ Count(hlog[c], "DisconnHandler") <= 1
    /\ Has(hlog[c], "DisconnHandler") => est[c] = "Closed"
    /\ (hpc[c] = "done" /\ Has(hlog[c], "Set")) =>
         Count(hlog[c], "DisconnHandler") = 1

(* C5: Close() stops accepting, closes every registered connection and     *)
(* does not return before every handler task has exited: once Close() has  *)
(* returned, no handler task of the server is running.                     *)
InHandler == {"newConn", "connHandler", "inConnHandler", "set", "useConn",
              "engine", "delete", "disconn"}

C5_CloseWaitsForHandlers ==
  (closePc = "idle" /\ closeRet # "none") =>
    /\ listener = "closed"
    /\ \A c \in Conns : hpc[c] \notin InHandler

(* C6: a connection whose ConnHandler returned an error is refused: its    *)
(* handler task has returned and the transport is closed, its engine never *)
(* left Fresh, it was never registered and no message of that peer was     *)
(* dispatched.                                                             *)
C6_RefusedConnection ==
  \A c \in Conns :
    Has(hlog[c], "Refused") =>
      /\ hpc[c] = "done"
      /\ tclosed[c]
      /\ est[c] = "Fresh"
      /\ ~Has(hlog[c], "Set") /\ ~Has(hlog[c], "useConn")
      /\ c \notin conns
      /\ recvd[c] = 0

C6_Witness == \E c \in Conns : Has(hlog[c], "Refused") /\ tclosed[c]

(* C7 as stated: the handler task performs Set, ConnHandler, useConn,      *)
(* Delete, DisconnHandler in this order, and the connection is in the      *)
(* registry while ConnHandler runs.                                        *)
C7_RegisteredBeforeConnHandler ==
  \A c \in Conns :
    /\ IsPrefix(Steps(c),
                <<"Set", "ConnHandler", "useConn", "Delete", "DisconnHandler">>)
    /\ hpc[c] = "inConnHandler" => c \in conns

(* C7 as amended: the handler task performs ConnHandler, Set, useConn,     *)
(* Delete, DisconnHandler in this order, each only after the ones before   *)
(* it; the connection is not yet in the registry while ConnHandler runs,   *)
(* and it is in the registry only between Set and Delete.                  *)
C7_ConnHandlerBeforeRegistry ==
  \A c \in Conns :
    /\ IsPrefix(Steps(c),
                <<"ConnHandler", "Set", "useConn", "Delete", "DisconnHandler">>)
    /\ hpc[c] \in {"connHandler", "inConnHandler"} => c \notin conns
    /\ c \in conns => (Has(hlog[c], "Set") /\ ~Has(hlog[c], "Delete"))

C7_Witness ==
  \E c \in Conns :
    /\ hpc[c] = "done"
    /\ Steps(c) = <<"ConnHandler", "Set", "useConn", "Delete", "DisconnHandler">>

(* C10: a Server.SendRequest call registers a callback and writes a frame  *)
(* only while the server is running, also when Close() runs concurrently:  *)
(* whenever the call handed the request to a connection, s.running held.   *)
C10_SendOnlyWhileRunning == srLast.ret = "sent" => srLast.running

(* C11: Start() blocks until Close(): once the listener is bound, Start()   *)
(* has not returned while no Close() call was made, and when it returns     *)
(* because of Close() its result is nil, also when Close() runs             *)
(* concurrently with Start().                                              *)
C11_StartBlocksUntilClose ==
  startPc = "returned" => (closeCalls > 0 /\ startRet = "nil")

(* The state right after the first statement of a Close() call made on a   *)
(* running server: Start() had executed s.running = true, and this call    *)
(* (the first) has just executed s.running = false.                        *)
CloseCalledOnRunning ==
  /\ closePc = "listener"
  /\ closeCalls = 1
  /\ startPc = "serve"
  /\ ~running

(* C21: under fair scheduling (SpecFair) a Close() call made on a running   *)
(* server eventually returns, also when a connection is being accepted     *)
(* while Close() runs and when NewConn failed after the handshake.         *)
C21_CloseReturns == CloseCalledOnRunning ~> (closePc = "idle")

(* The handler task of c is between s.conns.Set(c.ID, c) and               *)
(* s.conns.Delete(c.ID): its engine is about to start, is running, or has  *)
(* just ended.                                                             *)
InUse(c) == hpc[c] \in {"useConn", "engine", "delete"}

(* A Close() call has returned nil and none is in progress. *)
CloseReturned == closeCalls > 0 /\ closePc = "idle" /\ closeRet = "nil"

(* C22: the registry holds exactly the connections whose engine is         *)
(* running: a connection whose engine has ended (by close, error or        *)
(* handler panic) is no longer registered, a refused connection is never   *)
(* registered, and after Close() has returned the registry is empty.  The  *)
(* handler task is granted the moments between Set and the start of the    *)
(* engine and between the end of the engine and Delete.                    *)
C22_RegistryInvariant ==
  /\ \A c \in Conns : c \in conns <=> InUse(c)
  /\ \A c \in Conns : Has(hlog[c], "Refused") => c \notin conns
  /\ CloseReturned => conns = {}

(***************************************************************************)
(*                 THE MIDDLEWARE CHAIN OF A CONNECTION                     *)
(*                                                                         *)
(* SpecMw: a started server with both connections admitted and their read  *)
(* tasks running.  Each read task dispatches the Requests of its peer      *)
(* through the server's middleware chain; the peer reads the replies.      *)
(* The handlers CertAuth.reqMiddleware, HMAC and the "close" route are     *)
(* translated from the sources; the chain runner (Next, Done, the reply    *)
(* after the chain) and the echo handler are not among the sources and     *)
(* follow sections 4.E and 7 of the specification.                         *)
(***************************************************************************)
Payloads == {"a", "b"}
Tokens == {"valid", "invalid", "undecodable"}

Chains == {<<"echo">>, <<"certAuth", "echo">>, <<"hmac", "echo">>,
           <<"closeRoute">>, <<"app", "echo">>}

InChain(ch, h) == \E i \in 1..Len(ch) : ch[i] = h

(* What a handler did with the context: Done, Res, Err, whether it called  *)
(* Next, whether it closed the connection before returning, the code it    *)
(* runs once its call of Next has returned, and what it stored.            *)
Outcome(done, next, res, err, close, after, setUser, setAuth) ==
  [done |-> done, next |-> next, res |-> res, err |-> err, close |-> close,
   after |-> after, setUser |-> setUser, setAuth |-> setAuth]

(***************************************************************************)
(* CertAuth.reqMiddleware (src/jsonrpc/auth.go): a session with "userid"   *)
(* passes; without a peer certificate Done is set and the connection is    *)
(* closed; otherwise the certificate's CommonName is stored as "userid".   *)
(* The handlers of this package have no Next: the chain goes on to the     *)
(* following handler unless Done is set.                                   *)
(***************************************************************************)
CertAuthAcceptsAnonymous(hasUser, hasCert) ==
  Outcome(FALSE, TRUE, "keep", FALSE, FALSE, "none", hasCert /\ ~hasUser, FALSE)

CertAuthReq(hasUser, hasCert) ==
  IF hasUser
    THEN Outcome(FALSE, TRUE, "keep", FALSE, FALSE, "none", FALSE, FALSE)
    ELSE IF ~hasCert
      THEN Outcome(TRUE, FALSE, "keep", FALSE, TRUE, "none", FALSE, FALSE)
      ELSE Outcome(FALSE, TRUE, "keep", FALSE, FALSE, "none", TRUE, FALSE)

(* CertAuth.resMiddleware and CertAuth.notMiddleware, which NewCertAuth     *)
(* registers for the Responses and the Notifications a connection          *)
(* receives: a session with "userid" passes; any other has Done set and    *)
(* the connection closed.  Neither looks at the peer's certificates.       *)
CertAuthRes(hasUser) ==
  IF hasUser
    THEN Outcome(FALSE, TRUE, "keep", FALSE, FALSE, "none", FALSE, FALSE)
    ELSE Outcome(TRUE, FALSE, "keep", FALSE, TRUE, "none", FALSE, FALSE)

CertAuthNot(hasUser) ==
  IF hasUser
    THEN Outcome(FALSE, TRUE, "keep", FALSE, FALSE, "none", FALSE, FALSE)
    ELSE Outcome(TRUE, FALSE, "keep", FALSE, TRUE, "none", FALSE, FALSE)

(* What a certificate handler did with a message of the given kind. *)
AuthRecord(kind, out) == [kind |-> kind, closed |-> out.close]

(***************************************************************************)
(* The function HMAC(password) returns (src/middleware/jwt/jwt_auth.go).   *)
(* `authenticated` is a variable of HMAC captured by the closure: one per  *)
(* registered middleware, read and written by every request the closure    *)
(* serves.  ctx.Params fails on params that do not decode; jwt.Parse       *)
(* fails, or jt.Valid is false, on any token but a valid one.              *)
(***************************************************************************)
HMACReq(auth, tok) ==
  IF auth
    THEN Outcome(FALSE, TRUE, "keep", FALSE, FALSE, "none", FALSE, FALSE)
    ELSE IF tok = "undecodable"
      THEN Outcome(FALSE, FALSE, "keep", TRUE, TRUE, "none", FALSE, FALSE)
      ELSE IF tok # "valid"
        THEN Outcome(FALSE, FALSE, "keep", TRUE, TRUE, "none", FALSE, FALSE)
        ELSE Outcome(FALSE, TRUE, "keep", FALSE, FALSE, "none", TRUE, TRUE)

(***************************************************************************)
(* The "close" route of TestExternalClient (src/unnamed/part_003):         *)
(* ctx.Params(&ctx.Res); err := ctx.Next(); ctx.Conn.Close(); return err.  *)
(***************************************************************************)
CloseRouteClosesFirst(body) ==
  Outcome(FALSE, TRUE, body, FALSE, TRUE, "none", FALSE, FALSE)

CloseRouteReq(body) ==
  Outcome(FALSE, TRUE, body, FALSE, FALSE, "close", FALSE, FALSE)

(* The echo handler: the result is the request's params, then Next. *)
EchoReq(body) ==
  Outcome(FALSE, TRUE, body, FALSE, FALSE, "none", FALSE, FALSE)

(* An application handler: it may set Done, call Next, set Res, return an  *)
(* error, in any combination.                                              *)
AppChoices == [done : BOOLEAN, next : BOOLEAN, res : BOOLEAN, err : BOOLEAN]
NoChoice == [done |-> FALSE, next |-> FALSE, res |-> FALSE, err |-> FALSE]

AppReq(o) ==
  Outcome(o.done, o.next, IF o.res THEN "app" ELSE "keep", o.err, FALSE,
          "none", FALSE, FALSE)

ChoicesOf(h) == IF h = "app" THEN AppChoices ELSE {NoChoice}

HandlerOutcome(h, c, o) ==
  CASE h = "certAuth" -> CertAuthReq(session[c], cert[c])
    [] h = "hmac" -> HMACReq(authenticated, mreq[c].tok)
    [] h = "closeRoute" -> CloseRouteReq(mreq[c].body)
    [] h = "echo" -> EchoReq(mreq[c].body)
    [] h = "app" -> AppReq(o)

(***************************************************************************)
(* The chain runner.  Next() advances to the next handler; Done = true     *)
(* forces termination even if Next() is called; returning without calling  *)
(* Next ends the chain.  The chain completes when Next() is called past    *)
(* the last handler or when it is ended or terminated before that; the     *)
(* engine then composes the Response from Res / Err and writes it, unless  *)
(* Done is set and Res and Err are both unset (silent drop).  A write on a *)
(* closed connection fails with Closed: no frame is written.               *)
(***************************************************************************)
NextAdvances(done, calledNext) == calledNext /\ ~done

ReplyAlways(cx) == FALSE
ReplySuppressed(cx) == cx.done /\ cx.res = "unset" /\ ~cx.err

Response(id, cx) == [id |-> id, res |-> cx.res, err |-> cx.err]

srvRest == <<peers, running, listener, startPc, startRet, closePc, closeCalls,
             closeRet, wg, conns, hpc, hlog, nextId, reqOk, srPc, srConn,
             srLast>>

(* The read task reads the next Request of its peer and starts the chain   *)
(* on it (synchronous dispatch: one request at a time per connection).     *)
MwDispatch(c, r) ==
  /\ hpc[c] = "engine"
  /\ est[c] = "Running"
  /\ ~tclosed[c]
  /\ mpc[c] = "idle"
  /\ recvd[c] < MaxRecv
  /\ r.id = recvd[c] + 1
  /\ recvd' = [recvd EXCEPT ![c] = @ + 1]
  /\ mreq' = [mreq EXCEPT ![c] = r]
  /\ mwIndex' = [mwIndex EXCEPT ![c] = 1]
  /\ ctx' = [ctx EXCEPT ![c] = NewCtx]
  /\ post' = [post EXCEPT ![c] = <<>>]
  /\ ran' = [ran EXCEPT ![c] = <<>>]
  /\ cutAt' = [cutAt EXCEPT ![c] = 0]
  /\ nextLog' = [nextLog EXCEPT ![c] = <<>>]
  /\ mpc' = [mpc EXCEPT ![c] = "run"]
  /\ UNCHANGED <<authLog, chain, authenticated, session, cert, sout, cgot, ceof, ccb>>
  /\ UNCHANGED <<connVars, hdrVars, srvRest>>
  /\ UNCHANGED <<est, tclosed, nclose, closeErr, pending, cbLog>>

(* The read task reads a Response or a Notification of its peer and runs   *)
(* the chain of that kind: the certificate handler when NewCertAuth was    *)
(* registered (no other handler of these chains is modelled).  No wire     *)
(* reply is ever written for these messages, and a Response finds the      *)
(* server's pending table empty: the server sent no request.               *)
InboundKinds == {"Response", "Notification"}

InboundOutcome(kind, c) ==
  IF kind = "Response" THEN CertAuthRes(session[c]) ELSE CertAuthNot(session[c])

MwInbound(c, kind) ==
  /\ InChain(chain, "certAuth")
  /\ hpc[c] = "engine"
  /\ est[c] = "Running"
  /\ ~tclosed[c]
  /\ mpc[c] = "idle"
  /\ Len(authLog[c]) < MaxRecv
  /\ LET out == InboundOutcome(kind, c)
     IN /\ authLog' = [authLog EXCEPT ![c] = Append(@, AuthRecord(kind, out))]
        /\ IF out.close
             THEN CloseAll({c})
             ELSE UNCHANGED <<est, tclosed, nclose, closeErr, pending, cbLog>>
  /\ UNCHANGED <<chain, authenticated, session, cert, mpc, mreq, mwIndex, ctx,
                 post, ran, cutAt, nextLog, sout, cgot, ceof, ccb, recvd>>
  /\ UNCHANGED <<connVars, hdrVars, srvRest>>

(* The handler at ctx.mwIndex runs, up to its call of Next or its return. *)
MwRun(c, o) ==
  /\ mpc[c] = "run"
  /\ mwIndex[c] <= Len(chain)
  /\ o \in ChoicesOf(chain[mwIndex[c]])
  /\ LET h == chain[mwIndex[c]]
         out == HandlerOutcome(h, c, o)
         d == ctx[c].done \/ out.done
         adv == NextAdvances(d, out.next)
     IN /\ ran' = [ran EXCEPT ![c] = Append(@, h)]
        /\ ctx' = [ctx EXCEPT ![c] =
                     [done |-> d,
                      res |-> IF out.res = "keep" THEN @.res ELSE out.res,
                      err |-> @.err \/ out.err]]
        /\ session' = [session EXCEPT ![c] = @ \/ out.setUser]
        /\ authenticated' = (authenticated \/ out.setAuth)
        /\ cutAt' = [cutAt EXCEPT ![c] =
                       IF out.done /\ ~out.next /\ @ = 0 THEN mwIndex[c] ELSE @]
        /\ nextLog' = [nextLog EXCEPT ![c] =
                         IF out.next
                           THEN Append(@, [h |-> h, user |-> session'[c],
                                           tok |-> mreq[c].tok])
                           ELSE @]
        /\ post' = [post EXCEPT ![c] =
                      IF out.next /\ out.after # "none"
                        THEN Append(@, out.after) ELSE @]
        /\ mwIndex' = [mwIndex EXCEPT ![c] = IF adv THEN @ + 1 ELSE @]
        /\ mpc' = [mpc EXCEPT ![c] =
                     IF adv /\ mwIndex[c] < Len(chain) THEN "run" ELSE "respond"]
        /\ authLog' = [authLog EXCEPT ![c] =
                         IF h = "certAuth"
                           THEN Append(@, AuthRecord("Request", out)) ELSE @]
        /\ IF out.close
             THEN CloseAll({c})
             ELSE UNCHANGED <<est, tclosed, nclose, closeErr, pending, cbLog>>
  /\ UNCHANGED <<chain, cert, mreq, sout, cgot, ceof, ccb, recvd>>
  /\ UNCHANGED <<connVars, hdrVars, srvRest>>

(* The chain has completed: the engine composes and writes the Response. *)
MwRespond(c) ==
  /\ mpc[c] = "respond"
  /\ sout' = [sout EXCEPT ![c] =
                IF ~ReplySuppressed(ctx[c]) /\ ~tclosed[c]
                  THEN Append(@, Response(mreq[c].id, ctx[c])) ELSE @]
  /\ mpc' = [mpc EXCEPT ![c] = "unwind"]
  /\ UNCHANGED <<authLog, chain, authenticated, session, cert, mreq, mwIndex, ctx, post,
                 ran, cutAt, nextLog, cgot, ceof, ccb, recvd>>
  /\ UNCHANGED <<connVars, hdrVars, srvRest>>
  /\ UNCHANGED <<est, tclosed, nclose, closeErr, pending, cbLog>>

(* The calls of Next return, innermost first: each handler runs the code   *)
(* that follows its call of Next ("close": ctx.Conn.Close()); then the     *)
(* read task is free for the next message.                                 *)
MwUnwind(c) ==
  /\ mpc[c] = "unwind"
  /\ IF post[c] # <<>>
       THEN /\ post' = [post EXCEPT ![c] = SubSeq(@, 1, Len(@) - 1)]
            /\ CloseAll({c})
            /\ UNCHANGED mpc
       ELSE /\ mpc' = [mpc EXCEPT ![c] = "idle"]
            /\ UNCHANGED <<post, est, tclosed, nclose, closeErr, pending, cbLog>>
  /\ UNCHANGED <<authLog, chain, authenticated, session, cert, mreq, mwIndex, ctx, ran,
                 cutAt, nextLog, sout, cgot, ceof, ccb, recvd>>
  /\ UNCHANGED <<connVars, hdrVars, srvRest>>

(***************************************************************************)
(* The peer of the connection: it sent each Request with a callback, reads *)
(* the frames in the order they were written and resolves them against its *)
(* pending-response table; when it observes the close, CancelAll(Closed)   *)
(* invokes every callback still pending.  Conn.Close is c.conn.Close():    *)
(* delivery of what was written before it is not guaranteed (the note at   *)
(* Conn.Close), so the peer may observe the close with frames still        *)
(* unread; those frames are lost.                                          *)
(***************************************************************************)
Invocation(kind, res, err) == [kind |-> kind, res |-> res, err |-> err]

PeerRecv(c) ==
  /\ ~ceof[c]
  /\ cgot[c] < Len(sout[c])
  /\ LET f == sout[c][cgot[c] + 1]
     IN ccb' = [ccb EXCEPT ![c][f.id] =
                  IF @ = <<>>
                    THEN <<Invocation("response", f.res, f.err)>> ELSE @]
  /\ cgot' = [cgot EXCEPT ![c] = @ + 1]
  /\ UNCHANGED <<authLog, chain, authenticated, session, cert, mpc, mreq, mwIndex, ctx,
                 post, ran, cutAt, nextLog, sout, ceof>>
  /\ UNCHANGED <<connVars, hdrVars, srvVars>>

PeerClosed(c) ==
  /\ ~ceof[c]
  /\ tclosed[c]
  /\ ceof' = [ceof EXCEPT ![c] = TRUE]
  /\ ccb' = [ccb EXCEPT ![c] =
               [i \in MwIds |->
                  IF i <= recvd[c] /\ ccb[c][i] = <<>>
                    THEN <<Invocation("closed", "unset", TRUE)>>
                    ELSE ccb[c][i]]]
  /\ UNCHANGED <<authLog, chain, authenticated, session, cert, mpc, mreq, mwIndex, ctx,
                 post, ran, cutAt, nextLog, sout, cgot>>
  /\ UNCHANGED <<connVars, hdrVars, srvVars>>

(***************************************************************************)
(* SpecMw starts where Start() serves, both connections have passed        *)
(* ConnHandler, are registered and are in useConn.  The requests of a peer *)
(* carry a token only when the chain holds the JWT handler, and the peers  *)
(* differ in their certificates only when it holds the certificate         *)
(* handler.                                                                *)
(***************************************************************************)
RequestsOf(ch) ==
  [id : MwIds,
   tok : IF InChain(ch, "hmac") THEN Tokens ELSE {"none"},
   body : Payloads]

CertsOf(ch) ==
  IF InChain(ch, "certAuth")
    THEN {[c \in Conns |-> b] : b \in BOOLEAN}
    ELSE {[c \in Conns |-> FALSE]}

(* The connections of a run: two peers when the chain holds the JWT        *)
(* handler, whose state is shared between connections, else one.           *)
PeersOf(ch) == IF InChain(ch, "hmac") THEN Conns ELSE {"c1"}

InitServing(P) ==
  /\ peers = P
  /\ running = TRUE
  /\ listener = "open"
  /\ startPc = "serve"
  /\ startRet = "none"
  /\ closePc = "idle"
  /\ closeCalls = 0
  /\ closeRet = "none"
  /\ wg = Cardinality(P)
  /\ conns = P
  /\ hpc = [c \in Conns |-> IF c \in P THEN "engine" ELSE "none"]
  /\ est = [c \in Conns |-> IF c \in P THEN "Running" ELSE "Fresh"]
  /\ tclosed = [c \in Conns |-> FALSE]
  /\ nclose = [c \in Conns |-> 0]
  /\ closeErr = [c \in Conns |-> FALSE]
  /\ hlog = [c \in Conns |->
               IF c \in P THEN <<"ConnHandler", "Set", "useConn">> ELSE <<>>]
  /\ recvd = [c \in Conns |-> 0]
  /\ pending = [c \in Conns |-> {}]
  /\ cbLog = [c \in Conns |-> [i \in ReqIds |-> <<>>]]
  /\ nextId = [c \in Conns |-> 0]
  /\ reqOk = [c \in Conns |-> {}]
  /\ srPc = "idle"
  /\ srConn = "c1"
  /\ srLast = NoSend

InitMw ==
  /\ chain \in Chains
  /\ InitServing(PeersOf(chain))
  /\ ConnIdle
  /\ HdrIdle
  /\ cert \in CertsOf(chain)
  /\ authenticated = FALSE
  /\ session = [c \in Conns |-> FALSE]
  /\ mpc = [c \in Conns |-> "idle"]
  /\ mreq = [c \in Conns |-> NoRequest]
  /\ mwIndex = [c \in Conns |-> 0]
  /\ ctx = [c \in Conns |-> NewCtx]
  /\ post = [c \in Conns |-> <<>>]
  /\ ran = [c \in Conns |-> <<>>]
  /\ cutAt = [c \in Conns |-> 0]
  /\ nextLog = [c \in Conns |-> <<>>]
  /\ sout = [c \in Conns |-> <<>>]
  /\ cgot = [c \in Conns |-> 0]
  /\ ceof = [c \in Conns |-> FALSE]
  /\ ccb = [c \in Conns |-> [i \in MwIds |-> <<>>]]
  /\ authLog = [c \in Conns |-> <<>>]

ReadTask(c) ==
  \/ \E r \in RequestsOf(chain) : MwDispatch(c, r)
  \/ \E kind \in InboundKinds : MwInbound(c, kind)
  \/ \E o \in AppChoices : MwRun(c, o)
  \/ MwRespond(c)
  \/ MwUnwind(c)

Peer(c) == PeerRecv(c) \/ PeerClosed(c)

NextMw ==
  \/ \E c \in Conns : ReadTask(c)
  \/ \E c \in Conns : Peer(c)

SpecMw == InitMw /\ [][NextMw]_vars

(***************************************************************************)
(* Properties of the middleware chain (checked under SpecMw).              *)
(***************************************************************************)

(* The frames written to the peer of c that answer request id. *)
Replies(c, id) == {i \in 1..Len(sout[c]) : sout[c][i].id = id}

(* C12 (short-circuit): when a handler has set ctx.Done = true and not     *)
(* called Next, no later handler of the chain runs for that message, and   *)
(* no reply to the Request is written while neither Res nor Err is set.    *)
C12_ShortCircuit ==
  \A c \in Conns :
    cutAt[c] > 0 =>
      /\ Len(ran[c]) = cutAt[c]
      /\ (ctx[c].res = "unset" /\ ~ctx[c].err) => Replies(c, mreq[c].id) = {}

(* An application handler in front of echo dropped a request silently, and *)
(* the read task has finished with it.                                     *)
C12_Witness ==
  \E c \in Conns :
    /\ chain = <<"app", "echo">>
    /\ cutAt[c] = 1
    /\ ctx[c].res = "unset" /\ ~ctx[c].err
    /\ mpc[c] = "idle"
    /\ ~tclosed[c]

(* C13 (close on auth failure): with the certificate handler first in the  *)
(* chain, a Request on a connection whose peer presented no certificate    *)
(* closes the connection; no later handler runs for it, no response to it  *)
(* is written, and the peer's callback never receives a response.          *)
C13_CloseOnAuthFailure ==
  \A c \in Conns :
    (chain = <<"certAuth", "echo">> /\ ~cert[c] /\ ran[c] # <<>>) =>
      /\ ran[c] = <<"certAuth">>
      /\ tclosed[c]
      /\ est[c] \in {"Closing", "Closed"}
      /\ Replies(c, mreq[c].id) = {}
      /\ \A i \in MwIds : \A k \in 1..Len(ccb[c][i]) :
           ccb[c][i][k].kind = "closed"

(* The peer without certificate sent a request and observed PeerClosed. *)
C13_Witness ==
  \E c \in Conns :
    /\ chain = <<"certAuth", "echo">>
    /\ ~cert[c]
    /\ ran[c] = <<"certAuth">>
    /\ mpc[c] = "idle"
    /\ ceof[c]
    /\ ccb[c][1] = <<Invocation("closed", "unset", TRUE)>>

(* The JWT handler called Next for the request that c is dispatching. *)
HMACCalledNext(c) ==
  \E k \in 1..Len(nextLog[c]) : nextLog[c][k].h = "hmac"

(* C14 (JWT HMAC): for every request, on every connection the handler      *)
(* serves, whose params do not decode or whose token is not valid, the     *)
(* handler closes the connection, returns an error and does not call Next. *)
C14_InvalidTokenCloses ==
  \A c \in Conns :
    (InChain(chain, "hmac") /\ ran[c] # <<>> /\ mreq[c].tok # "valid") =>
      /\ tclosed[c]
      /\ ctx[c].err
      /\ ~HMACCalledNext(c)

(* C20 (per-connection JWT authentication): whenever the JWT handler calls *)
(* Next for a request on c, the session of c holds "userid": c itself has  *)
(* presented a valid token, whatever happened on other connections.        *)
C20_AuthenticatedPerConnection ==
  \A c \in Conns : \A k \in 1..Len(nextLog[c]) :
    nextLog[c][k].h = "hmac" => nextLog[c][k].user

(* The "close" route has handled the request that c is dispatching: its    *)
(* call of Next has been made.                                             *)
CloseRouteDone(c) ==
  /\ chain = <<"closeRoute">>
  /\ ran[c] = <<"closeRoute">>
  /\ mpc[c] \in {"unwind", "idle"}

NoReply == [sent |-> FALSE, body |-> <<>>]

EchoReply(r) ==
  IF r.err THEN NoReply ELSE [sent |-> TRUE, body |-> EchoReq(r.msg).res]

(* C16 (echo round trip): every payload P under the configured maximum     *)
(* size, sent to a peer whose chain is the echo handler, yields a reply    *)
(* whose body equals P: on a stream written back-to-back without transport *)
(* errors, the reply to the i-th message read is the i-th message sent.    *)
C16_EchoRoundTrip ==
  \A i \in 1..Len(reads) :
    (CleanStream /\ Len(written[i]) <= maxMsgSize) =>
      EchoReply(reads[i]) = [sent |-> TRUE, body |-> written[i]]

(***************************************************************************)
(* Properties of the server with two clients (checked under SpecTwo).      *)
(***************************************************************************)

(* A step in which a handler of c panics. *)
PanicStep(c) == Count(hlog'[c], "Panic") > Count(hlog[c], "Panic")

(* C17 (panic isolation): a step in which a handler of connection c panics *)
(* is recovered: it moves c out of Running and leaves every other          *)
(* connection as it was (its handler task, engine state, transport,        *)
(* registration and pending callbacks), and the server keeps accepting     *)
(* (listener, running flag and Start() are untouched).                     *)
C17_PanicIsolation ==
  [][\A c \in Conns :
       PanicStep(c) =>
         /\ est'[c] \in {"Closing", "Closed"}
         /\ \A d \in Conns \ {c} :
              /\ hpc'[d] = hpc[d]
              /\ est'[d] = est[d]
              /\ tclosed'[d] = tclosed[d]
              /\ (d \in conns') = (d \in conns)
              /\ pending'[d] = pending[d]
              /\ cbLog'[d] = cbLog[d]
         /\ listener' = listener
         /\ running' = running
         /\ startPc' = startPc]_vars

(* A handler of one connection has panicked while the other connection is  *)
(* registered and running and the server is accepting.                     *)
C17_Witness ==
  \E c \in Conns : \E d \in Conns \ {c} :
    /\ Has(hlog[c], "Panic")
    /\ est[c] = "Closed"
    /\ hpc[d] = "engine"
    /\ est[d] = "Running"
    /\ ~tclosed[d]
    /\ d \in conns
    /\ listener = "open"
    /\ startPc = "serve"

(* C18 (partial reads, checked under SpecConn): Conn.Read goes on over     *)
(* partial transport reads of the header and of the body until it has      *)
(* headerSize header bytes and n body bytes: it returns an error only when *)
(* the transport reported one, and a payload returned with a nil error has *)
(* exactly n bytes.                                                        *)
C18_PartialReads ==
  \A i \in 1..Len(reads) :
    /\ reads[i].err => rfault
    /\ ~reads[i].err => Len(reads[i].msg) = reads[i].n

(***************************************************************************)
(*                          THE LENGTH PREFIX                              *)
(*                                                                         *)
(* SpecHeader: makeHeaderBytes(h, size) as Conn.Write calls it, with the   *)
(* header width NewConn configured, then readHeaderBytes on the bytes as   *)
(* Conn.Read calls it.  binary.LittleEndian.PutUint32(b, v) and Uint32(b)  *)
(* index b[3]: on a buffer of fewer than four bytes they panic.  The       *)
(* lengths stop at 2^31 - 1, the largest integer of the model checker.     *)
(***************************************************************************)
HeaderWidthArgs == {0, 1, 2, 3, 4, 5, 8}
HeaderLengths == {0, 1, 255, 256, 65535, 65536, 16777216, 2147483647}

PutUint32Panics(size) == size < Uint32Bytes

InitHeader ==
  /\ InitServer
  /\ ConnIdle
  /\ MwIdle
  /\ hsize \in {NewConnHeaderSize(a) : a \in HeaderWidthArgs}
  /\ hval \in HeaderLengths
  /\ hbuf = <<>>
  /\ hout = 0
  /\ hstage = "start"

MakeHeader ==
  /\ hstage = "start"
  /\ IF PutUint32Panics(hsize)
       THEN /\ hstage' = "panic"
            /\ UNCHANGED hbuf
       ELSE /\ hbuf' = makeHeaderBytes(hval, hsize)
            /\ hstage' = "made"
  /\ UNCHANGED <<hsize, hval, hout>>
  /\ UNCHANGED <<connVars, srvVars, mwVars>>

ReadHeaderBack ==
  /\ hstage = "made"
  /\ hout' = readHeaderBytes(hbuf)
  /\ hstage' = "read"
  /\ UNCHANGED <<hsize, hval, hbuf>>
  /\ UNCHANGED <<connVars, srvVars, mwVars>>

NextHeader == MakeHeader \/ ReadHeaderBack

SpecHeader == InitHeader /\ [][NextHeader]_vars

(* The number a byte sequence holds in little-endian order. *)
RECURSIVE LittleEndian(_)
LittleEndian(b) ==
  IF b = <<>> THEN 0
  ELSE IF \A i \in 1..Len(b) : b[i] = 0 THEN 0
  ELSE b[1] + 256 * LittleEndian(Drop(b, 1))

(* C19 (length prefix round trip, checked under SpecHeader): for every     *)
(* configured header width and every length n, makeHeaderBytes(n, width)   *)
(* returns exactly width bytes that hold n in little-endian order, and     *)
(* readHeaderBytes of those bytes returns n.                               *)
C19_HeaderRoundTrip ==
  /\ hstage # "panic"
  /\ hstage \in {"made", "read"} =>
       (Len(hbuf) = hsize /\ LittleEndian(hbuf) = hval)
  /\ hstage = "read" => hout = hval


(***************************************************************************)
(* The certificate handlers over every kind of message (checked under      *)
(* SpecMw).                                                                *)
(***************************************************************************)

(* C23: the certificate-authentication middleware closes a connection only *)
(* if its peer presented no certificate, whatever kind of message          *)
(* (Request, Response or Notification) arrives first, and the session      *)
(* holds "userid" only on connections whose peer presented a certificate.  *)
C23_ClosesOnlyWithoutCertificate ==
  \A c \in Conns :
    /\ \A k \in 1..Len(authLog[c]) : authLog[c][k].closed => ~cert[c]
    /\ (InChain(chain, "certAuth") /\ session[c]) => cert[c]

====
